---- MODULE Spec2Model ----
(***************************************************************************)
(* The on-disk cache of the ECS Agent image (ecs-init/cache/cache.go).     *)
(*                                                                         *)
(* One Downloader instance works on one cache directory.  The state is the *)
(* directory (the canonical tarball, the state marker, the desired-image   *)
(* locator, the temporary download files), the Downloader's memoized       *)
(* region, and the position of each DownloadAgent call in its code.        *)
(* File contents, paths and checksums are byte strings: sequences of       *)
(* numbers in 0..255.                                                      *)
(***************************************************************************)
EXTENDS Integers, Sequences, FiniteSets, TLC

(***************************************************************************)
(* Bounds of the model.                                                    *)
(***************************************************************************)
\* Longest artifact stream the remote store serves, in bytes.
MaxLen == 2
\* Temporary files the cache directory has room for, for each caller.
MaxTemp == 1
\* Calls of the metadata capability followed on one Downloader instance.
MaxMetadataCalls == 2
\* Longest content of the desired-image locator file, in bytes.
MaxLine == 5

(***************************************************************************)
(* Bytes and byte strings.                                                 *)
(***************************************************************************)
NL == 10
SP == 32
SLASH == 47
DOT == 46

\* The ASCII code points unicode.IsSpace accepts: \t \n \v \f \r and space.
Whitespace == {9, 10, 11, 12, 13, 32}

RECURSIVE TrimLeft(_)
TrimLeft(s) ==
    IF s # <<>> /\ Head(s) \in Whitespace THEN TrimLeft(Tail(s)) ELSE s

RECURSIVE TrimRight(_)
TrimRight(s) ==
    IF s # <<>> /\ s[Len(s)] \in Whitespace
    THEN TrimRight(SubSeq(s, 1, Len(s) - 1))
    ELSE s

\* strings.TrimSpace
TrimSpace(s) == TrimRight(TrimLeft(s))

\* One digit of fmt.Sprintf("%x", ...): lowercase, '0' is 48 and 'a' is 97.
HexDigit(n) == IF n < 10 THEN 48 + n ELSE 87 + n

\* The same digit as an uppercase writer would print it ('A' is 65).
UpperHexDigit(n) == IF n < 10 THEN 48 + n ELSE 55 + n

RECURSIVE HexString(_)
\* fmt.Sprintf("%x", sum): two lowercase hex digits per byte of the sum.
HexString(sum) ==
    IF sum = <<>> THEN <<>>
    ELSE <<HexDigit(Head(sum) \div 16), HexDigit(Head(sum) % 16)>>
             \o HexString(Tail(sum))

RECURSIVE UpperHexString(_)
UpperHexString(sum) ==
    IF sum = <<>> THEN <<>>
    ELSE <<UpperHexDigit(Head(sum) \div 16), UpperHexDigit(Head(sum) % 16)>>
             \o UpperHexString(Tail(sum))

(***************************************************************************)
(* The digest.  md5.New() / Write / Sum are modelled by a running digest   *)
(* of one byte instead of sixteen: it is fed byte by byte, depends on      *)
(* every byte and on their order, and it has collisions (as any digest).   *)
(***************************************************************************)
md5New == 212

md5Write(h, b) == (h * 31 + b + 7) % 256

md5Sum(h) == <<h>>

RECURSIVE md5Of(_, _)
\* The digest state after writing all of s to a digest in state h.
md5Of(h, s) == IF s = <<>> THEN h ELSE md5Of(md5Write(h, Head(s)), Tail(s))

\* The calculatedMd5SumString of a whole stream.
Md5SumString(s) == HexString(md5Sum(md5Of(md5New, s)))

(***************************************************************************)
(* Files.                                                                  *)
(***************************************************************************)
Absent == [exists |-> FALSE, data |-> <<>>]

File(bytes) == [exists |-> TRUE, data |-> bytes]

(***************************************************************************)
(* The paths of package config.  The cache directory is /var/cache/ecs     *)
(* and holds ecs-agent.tar, state and desired-image; a temporary file is   *)
(* named by TempFile as the prefix "ecs-agent.tar" and a generated suffix. *)
(***************************************************************************)
\* "/var/cache/ecs"
CacheDirectory ==
    <<47, 118, 97, 114, 47, 99, 97, 99, 104, 101, 47, 101, 99, 115>>

\* "ecs-agent.tar"
AgentTarballName ==
    <<101, 99, 115, 45, 97, 103, 101, 110, 116, 46, 116, 97, 114>>

\* "state"
CacheStateName == <<115, 116, 97, 116, 101>>

\* "desired-image"
DesiredImageName ==
    <<100, 101, 115, 105, 114, 101, 100, 45, 105, 109, 97, 103, 101>>

AgentTarball == CacheDirectory \o <<SLASH>> \o AgentTarballName

CacheState == CacheDirectory \o <<SLASH>> \o CacheStateName

DesiredImageLocatorFile == CacheDirectory \o <<SLASH>> \o DesiredImageName

\* The process that owns the Downloader and calls its methods one after the
\* other, again and again.  The other callers are goroutines that call
\* DownloadAgent once each, at the same time.
Owner == 1

Callers == {1, 2, 3}

\* The generated suffixes of the temporary files.
TempNames == 1 .. MaxTemp * Cardinality(Callers \ {Owner})

\* The path of the temporary file with generated suffix n (the digit n).
TempPath(n) == AgentTarball \o <<48 + n>>

DefaultRegionName == "us-east-1"

\* The URLs of the tarball and of its checksum for a region.
AgentRemoteTarball(r) == <<"ecs-agent.tar", r>>

AgentRemoteTarballMD5(r) == <<"ecs-agent.tar.md5", r>>

StatusOK == 200

(***************************************************************************)
(* What the environment can supply.                                        *)
(***************************************************************************)
\* The first n bytes of an image whose bytes are 0, 1, 0, 1, ...
RECURSIVE Image(_)
Image(n) == IF n = 0 THEN <<>> ELSE Append(Image(n - 1), (n - 1) % 2)

\* The artifact streams the remote store can serve: the images of up to
\* MaxLen bytes (the empty one too, and each a prefix of the longer ones),
\* and a one-byte image that is a prefix of none of them.
Streams == {Image(n) : n \in 0 .. MaxLen} \cup {<<1>>}

\* The manifest bodies the remote store can serve for tarball t: its
\* checksum bare, its checksum wrapped in whitespace, its checksum in
\* uppercase, and the checksum of another tarball.
ManifestsFor(t) ==
    { Md5SumString(t),
      <<SP>> \o Md5SumString(t) \o <<NL>>,
      UpperHexString(md5Sum(md5Of(md5New, t))),
      Md5SumString(Append(t, 1)) }

StatusCodes == {StatusOK, 404}

\* What the metadata capability can answer: an error, or a region string
\* (possibly the empty string).
MetadataAnswers ==
    { [err |-> TRUE, region |-> ""],
      [err |-> FALSE, region |-> ""],
      [err |-> FALSE, region |-> "us-west-2"] }

\* The contents of the desired-image locator file.
LocatorContents ==
    { <<DOT, DOT, SLASH>> \o AgentTarballName \o <<NL>>,
      AgentTarballName }

\* The bytes a locator file is written with: a name character ("a"), the
\* path separator, the dot, the space and the newline.
LocatorAlphabet == {97, SLASH, DOT, SP, NL}

\* Every content of up to MaxLine bytes of the desired-image locator file.
LocatorLines == UNION { [1 .. n -> LocatorAlphabet] : n \in 0 .. MaxLine }


\* "<Error>": the body of a response that reports an error.
ErrorBody == <<60, 69, 114, 114, 111, 114, 62>>

\* What the remote store holds during one download attempt: a tarball, and
\* for its checksum either a manifest or an error response.
Remotes ==
    UNION { { [tarball |-> t, manifest |-> m, manifestStatus |-> StatusOK] :
                  m \in ManifestsFor(t) }
            \cup { [tarball |-> t, manifest |-> ErrorBody,
                    manifestStatus |-> 404] } : t \in Streams }

(***************************************************************************)
(* The state.                                                              *)
(***************************************************************************)
VARIABLES
    \* The cache directory and its files.
    dirExists,      \* whether config.CacheDirectory() exists
    canon,          \* the file at config.AgentTarball()
    marker,         \* the file at config.CacheState()
    locator,        \* the file at config.DesiredImageLocatorFile()
    temps,          \* the temporary files, by generated suffix
    \* The Downloader.
    sessionErr,     \* whether session.NewSession() fails on this host
    region,         \* d.region
    metadata,       \* whether d.metadata was set by NewDownloader
    \* Each DownloadAgent call.
    callers,        \* the callers that run DownloadAgent
    pc,             \* where the call is in DownloadAgent
    publishedMd5Sum,
    unread,         \* what publishedTarballReader has still to deliver
    md5hash,        \* the running digest
    tempFile,       \* the suffix of tempFile.Name(), 0 before TempFile
    open,           \* the response bodies and file handles the call holds open
    \* The environment.
    remote,         \* what the remote store serves to the call in progress
    \* What the last operation returned, until the next step of any.
    ret,
    \* History.
    metadataCalls,  \* calls of d.metadata.Region() on this instance
    canonBefore,    \* the canonical file as it was when the call started
    prevRemote,     \* what the remote store served to the call before, if
                    \* that call returned no error
    recordedEarly   \* RecordCachedAgent has run with no canonical artifact

disk == <<dirExists, canon, marker, locator, temps>>

downloader == <<sessionErr, region, metadata, metadataCalls>>

locals == <<publishedMd5Sum, unread, md5hash, tempFile>>

history == <<canonBefore, prevRemote, recordedEarly>>

vars == <<disk, downloader, callers, pc, locals, open, remote, ret, history>>

NoError == [kind |-> "nil", url |-> <<>>, code |-> 0]

Error(kind) == [kind |-> kind, url |-> <<>>, code |-> 0]

NoRet ==
    [op |-> "none", ok |-> FALSE, err |-> NoError, data |-> <<>>,
     path |-> <<>>, statErr |-> "none", removeErr |-> FALSE,
     again |-> FALSE]

NoRemote == [tarball |-> <<>>, manifest |-> <<>>, manifestStatus |-> 0]

\* The suffixes of the temporary files present in the cache directory.
TempFiles == {n \in TempNames : temps[n].exists}

(***************************************************************************)
(* NewDownloader: without a session the region is preset to the default    *)
(* and there is no metadata client; otherwise the region is still unset.   *)
(***************************************************************************)
NewDownloader ==
    /\ region' = IF sessionErr THEN DefaultRegionName ELSE ""
    /\ metadata' = ~sessionErr
    /\ metadataCalls' = 0
    /\ UNCHANGED sessionErr

\* The cache directories the program starts on: none yet, or a directory
\* holding only a desired-image locator.
InitDisk ==
    /\ canon = Absent
    /\ marker = Absent
    /\ temps = [n \in TempNames |-> Absent]
    /\ \/ dirExists = FALSE /\ locator = Absent
       \/ dirExists = TRUE /\ locator \in {File(c) : c \in LocatorContents}

\* The Downloader that NewDownloader returns, with no call made yet.
InitCalls ==
    /\ region = IF sessionErr THEN DefaultRegionName ELSE ""
    /\ metadata = ~sessionErr
    /\ metadataCalls = 0
    /\ pc = [p \in Callers |-> "idle"]
    /\ publishedMd5Sum = [p \in Callers |-> <<>>]
    /\ unread = [p \in Callers |-> <<>>]
    /\ md5hash = [p \in Callers |-> md5New]
    /\ tempFile = [p \in Callers |-> 0]
    /\ open = [p \in Callers |-> {}]
    /\ ret = NoRet
    /\ remote = [p \in Callers |-> NoRemote]
    /\ canonBefore = [p \in Callers |-> Absent]
    /\ prevRemote = [p \in Callers |-> NoRemote]
    /\ recordedEarly = FALSE

InitDownloader == InitDisk /\ InitCalls /\ callers = {Owner}

\* A host on which NewDownloader gets no session: the region is preset.
Init == sessionErr = TRUE /\ InitDownloader

\* A host on which NewDownloader gets a session and a metadata client.
InitMetadata == sessionErr = FALSE /\ InitDownloader

(***************************************************************************)
(* getRegion, as a step that returns r.  A region already set is returned  *)
(* as it is; otherwise the metadata capability is asked, its error is      *)
(* replaced by the default, and the answer is stored in d.region.          *)
(***************************************************************************)
getRegion(r) ==
    /\ IF region # ""
       THEN /\ r = region
            /\ UNCHANGED <<region, metadataCalls>>
       ELSE /\ metadata
            /\ \E a \in MetadataAnswers :
                  /\ (~a.err /\ a.region = "")
                        => metadataCalls + 1 < MaxMetadataCalls
                  /\ r = IF a.err THEN DefaultRegionName ELSE a.region
            /\ region' = r
            /\ metadataCalls' = metadataCalls + 1
    /\ UNCHANGED <<sessionErr, metadata>>

Regions == {"", DefaultRegionName, "us-west-2"}

(***************************************************************************)
(* DownloadAgent, step by step.  A call that returns runs its deferred     *)
(* calls in the returning step: tempFile.Close(), then the removal of the  *)
(* temporary file if the variable err is set, then the Close() of the      *)
(* tarball reader.                                                         *)
(***************************************************************************)

\* What a call of DownloadAgent that returns e leaves in ret; again tells
\* that the call returned no error on the remote content on which the call
\* before it returned no error.
Returned(p, e) ==
    [NoRet EXCEPT !.op = "DownloadAgent", !.ok = (e = NoError), !.err = e,
                  !.again = (e = NoError /\ prevRemote[p] = remote[p])]

\* When a call returns e its local variables are gone, and so is what the
\* model remembers of the call.
Forget(p, e) ==
    /\ publishedMd5Sum' = [publishedMd5Sum EXCEPT ![p] = <<>>]
    /\ unread' = [unread EXCEPT ![p] = <<>>]
    /\ md5hash' = [md5hash EXCEPT ![p] = md5New]
    /\ tempFile' = [tempFile EXCEPT ![p] = 0]
    /\ remote' = [remote EXCEPT ![p] = NoRemote]
    /\ canonBefore' = [canonBefore EXCEPT ![p] = Absent]
    /\ prevRemote' = [prevRemote EXCEPT ![p] =
                         IF e = NoError THEN remote[p] ELSE NoRemote]
    /\ UNCHANGED <<callers, recordedEarly>>

\* Where a caller is after its call: the owner is ready for its next call,
\* another caller has ended.
Rest(p) == IF p = Owner THEN "idle" ELSE "done"

\* The call returns e.
Return(p, e) ==
    /\ pc' = [pc EXCEPT ![p] = Rest(p)]
    /\ ret' = Returned(p, e)
    /\ Forget(p, e)

\* The call goes on to the step at label.
Goto(p, label) ==
    /\ pc' = [pc EXCEPT ![p] = label]
    /\ ret' = NoRet
    /\ UNCHANGED <<callers, remote, history>>

\* A return that hands out the error of the removal when the removal fails.
ReturnRemovingMasked(p, e) ==
    /\ pc' = [pc EXCEPT ![p] = Rest(p)]
    /\ Forget(p, e)
    /\ open' = [open EXCEPT ![p] = @ \ {"tempFile", "tarball"}]
    /\ \E removeErr \in BOOLEAN :
          /\ temps' = IF removeErr THEN temps
                      ELSE [temps EXCEPT ![tempFile[p]] = Absent]
          /\ ret' = [Returned(p, IF removeErr THEN Error("remove") ELSE e)
                        EXCEPT !.removeErr = removeErr]

\* The deferred calls after TempFile succeeded, with the variable err set:
\* the temporary file is closed and removed (the removal may fail, which is
\* ignored), the tarball reader is closed, and the call returns e.
ReturnRemoving(p, e) ==
    /\ pc' = [pc EXCEPT ![p] = Rest(p)]
    /\ Forget(p, e)
    /\ open' = [open EXCEPT ![p] = @ \ {"tempFile", "tarball"}]
    /\ \E removeErr \in BOOLEAN :
          /\ temps' = IF removeErr THEN temps
                      ELSE [temps EXCEPT ![tempFile[p]] = Absent]
          /\ ret' = [Returned(p, e) EXCEPT !.removeErr = removeErr]

\* A start of the call that goes on when the directory was not created.
MkdirAllIgnored(p) ==
    /\ p \in callers
    /\ pc[p] = "idle"
    /\ \E ok \in BOOLEAN :
          /\ ~ok => ~dirExists
          /\ dirExists' = (dirExists \/ ok)
    /\ \E rem \in Remotes : remote' = [remote EXCEPT ![p] = rem]
    /\ canonBefore' = [canonBefore EXCEPT ![p] = canon]
    /\ pc' = [pc EXCEPT ![p] = "md5"]
    /\ ret' = NoRet
    /\ open' = [open EXCEPT ![p] = {}]
    /\ UNCHANGED <<locals, prevRemote, callers, recordedEarly>>
    /\ UNCHANGED <<canon, marker, locator, temps, downloader>>

\* Lines 97-101: the call starts and creates the cache directory.
MkdirAll(p) ==
    /\ p \in callers
    /\ pc[p] = "idle"
    /\ \E ok \in BOOLEAN :
          /\ ~ok => ~dirExists
          /\ dirExists' = (dirExists \/ ok)
          /\ IF ok
             THEN /\ \E rem \in Remotes : remote' = [remote EXCEPT ![p] = rem]
                  /\ canonBefore' = [canonBefore EXCEPT ![p] = canon]
                  /\ pc' = [pc EXCEPT ![p] = "md5"]
                  /\ ret' = NoRet
                  /\ UNCHANGED <<locals, prevRemote, callers, recordedEarly>>
             ELSE Return(p, Error("mkdir"))
    /\ open' = [open EXCEPT ![p] = {}]
    /\ UNCHANGED <<canon, marker, locator, temps, downloader>>

\* A fetch of the checksum that keeps the whitespace around it.
getPublishedMd5SumUntrimmed(p) ==
    /\ pc[p] = "md5"
    /\ \E r \in Regions : getRegion(r)
    /\ \E getErr, readErr \in BOOLEAN :
          IF getErr \/ readErr
          THEN Return(p, Error(IF getErr THEN "get md5" ELSE "read md5"))
          ELSE /\ publishedMd5Sum' =
                      [publishedMd5Sum EXCEPT ![p] = remote[p].manifest]
               /\ Goto(p, "tarball")
               /\ UNCHANGED <<unread, md5hash, tempFile>>
    /\ UNCHANGED <<disk, open>>

\* Lines 103-106 and 148-166: the published checksum is fetched, read whole
\* and trimmed.  The status code of the response is not looked at.
getPublishedMd5Sum(p) ==
    /\ pc[p] = "md5"
    /\ \E r \in Regions : getRegion(r)
    /\ \E getErr, readErr \in BOOLEAN :
          IF getErr \/ readErr
          THEN Return(p, Error(IF getErr THEN "get md5" ELSE "read md5"))
          ELSE /\ publishedMd5Sum' =
                      [publishedMd5Sum EXCEPT ![p] = TrimSpace(remote[p].manifest)]
               /\ Goto(p, "tarball")
               /\ UNCHANGED <<unread, md5hash, tempFile>>
    /\ UNCHANGED <<disk, open>>

\* Lines 108-112 and 168-180: the tarball is requested.  A response whose
\* status is not 200 is an error, and its body stays open.
getPublishedTarball(p) ==
    /\ pc[p] = "tarball"
    /\ \E r \in Regions : getRegion(r)
    /\ \E getErr \in BOOLEAN, code \in StatusCodes :
          IF getErr
          THEN /\ Return(p, Error("get tarball"))
               /\ UNCHANGED open
          ELSE IF code # StatusOK
          THEN /\ Return(p, [kind |-> "unexpected response code",
                             url |-> <<>>, code |-> code])
               /\ open' = [open EXCEPT ![p] = @ \cup {"tarball"}]
          ELSE /\ unread' = [unread EXCEPT ![p] = remote[p].tarball]
               /\ open' = [open EXCEPT ![p] = @ \cup {"tarball"}]
               /\ Goto(p, "temp")
               /\ UNCHANGED <<publishedMd5Sum, md5hash, tempFile>>
    /\ UNCHANGED disk

\* A creation of the temporary file under a name that does not depend on
\* the files that are there: a file of that name is truncated.
TempFileFixedName(p) ==
    /\ pc[p] = "temp"
    /\ \/ /\ dirExists
          /\ temps' = [temps EXCEPT ![1] = File(<<>>)]
          /\ tempFile' = [tempFile EXCEPT ![p] = 1]
          /\ open' = [open EXCEPT ![p] = @ \cup {"tempFile"}]
          /\ Goto(p, "copy")
          /\ UNCHANGED <<publishedMd5Sum, unread, md5hash>>
       \/ /\ Return(p, Error("temp file"))
          /\ open' = [open EXCEPT ![p] = @ \ {"tarball"}]
          /\ UNCHANGED temps
    /\ UNCHANGED <<dirExists, canon, marker, locator, downloader>>

\* Lines 114-126: a temporary file with a name no file of the directory has
\* is created empty (the names are alike, so the first free one stands for
\* any of them), as long as the directory has room.  On failure only the
\* tarball reader's Close is deferred.
TempFile(p) ==
    /\ pc[p] = "temp"
    /\ \/ \E n \in TempNames \ TempFiles :
             /\ dirExists
             /\ Cardinality(TempFiles) < MaxTemp * Cardinality(callers)
             /\ \A m \in TempNames \ TempFiles : n <= m
             /\ temps' = [temps EXCEPT ![n] = File(<<>>)]
             /\ tempFile' = [tempFile EXCEPT ![p] = n]
             /\ open' = [open EXCEPT ![p] = @ \cup {"tempFile"}]
             /\ Goto(p, "copy")
             /\ UNCHANGED <<publishedMd5Sum, unread, md5hash>>
       \/ /\ Return(p, Error("temp file"))
          /\ open' = [open EXCEPT ![p] = @ \ {"tarball"}]
          /\ UNCHANGED temps
    /\ UNCHANGED <<dirExists, canon, marker, locator, downloader>>

\* A download that writes to the canonical path as it goes.
CopyChunkInPlace(p) ==
    /\ pc[p] = "copy"
    /\ unread[p] # <<>>
    /\ LET b == Head(unread[p])
       IN  /\ md5hash' = [md5hash EXCEPT ![p] = md5Write(@, b)]
           /\ canon' = File(Append(temps[tempFile[p]].data, b))
           /\ temps' = [temps EXCEPT ![tempFile[p]] = File(Append(@.data, b))]
           /\ unread' = [unread EXCEPT ![p] = Tail(@)]
    /\ Goto(p, "copy")
    /\ UNCHANGED <<dirExists, marker, locator, downloader, publishedMd5Sum,
                   tempFile, open>>

\* Lines 128-129: one round of Copy.  The tee reader delivers the next byte
\* of the tarball, writes it to the digest, and Copy writes it to the
\* temporary file.
CopyChunk(p) ==
    /\ pc[p] = "copy"
    /\ unread[p] # <<>>
    /\ LET b == Head(unread[p])
           n == tempFile[p]
       IN  /\ md5hash' = [md5hash EXCEPT ![p] = md5Write(@, b)]
           /\ temps' = [temps EXCEPT ![n] = File(Append(@.data, b))]
           /\ unread' = [unread EXCEPT ![p] = Tail(@)]
    /\ Goto(p, "copy")
    /\ UNCHANGED <<dirExists, canon, marker, locator, downloader,
                   publishedMd5Sum, tempFile, open>>

\* Lines 129-132: Copy fails, at any point of the stream.
CopyFail(p) ==
    /\ pc[p] = "copy"
    /\ ReturnRemoving(p, Error("copy"))
    /\ UNCHANGED <<dirExists, canon, marker, locator, downloader>>

\* s with its uppercase hex digits A-F in lowercase.
LowerCased(s) ==
    [i \in 1 .. Len(s) |-> IF s[i] \in 65 .. 70 THEN s[i] + 32 ELSE s[i]]

\* A comparison of the checksums that ignores the case of the digits.
CompareMd5SumFolded(p) ==
    /\ pc[p] = "copy"
    /\ unread[p] = <<>>
    /\ \E r \in Regions :
          /\ getRegion(r)
          /\ IF LowerCased(publishedMd5Sum[p]) # HexString(md5Sum(md5hash[p]))
             THEN ReturnRemoving(p, [kind |-> "mismatched md5sum",
                                     url |-> AgentRemoteTarball(r), code |-> 0])
             ELSE /\ Goto(p, "rename")
                  /\ UNCHANGED <<open, temps, locals>>
    /\ UNCHANGED <<dirExists, canon, marker, locator>>

\* A comparison that writes the state marker as soon as the checksums agree.
CompareMd5SumRecording(p) ==
    /\ pc[p] = "copy"
    /\ unread[p] = <<>>
    /\ \E r \in Regions :
          /\ getRegion(r)
          /\ IF publishedMd5Sum[p] # HexString(md5Sum(md5hash[p]))
             THEN /\ ReturnRemoving(p, [kind |-> "mismatched md5sum",
                                        url |-> AgentRemoteTarball(r),
                                        code |-> 0])
                  /\ UNCHANGED marker
             ELSE /\ Goto(p, "rename")
                  /\ marker' = File(<<49>>)
                  /\ UNCHANGED <<open, temps, locals>>
    /\ UNCHANGED <<dirExists, canon, locator>>

\* Lines 134-142: the stream has ended; the digest is printed in hex and
\* compared with the published checksum.
CompareMd5Sum(p) ==
    /\ pc[p] = "copy"
    /\ unread[p] = <<>>
    /\ \E r \in Regions :
          /\ getRegion(r)
          /\ IF publishedMd5Sum[p] # HexString(md5Sum(md5hash[p]))
             THEN ReturnRemoving(p, [kind |-> "mismatched md5sum",
                                     url |-> AgentRemoteTarball(r), code |-> 0])
             ELSE /\ Goto(p, "rename")
                  /\ UNCHANGED <<open, temps, locals>>
    /\ UNCHANGED <<dirExists, canon, marker, locator>>

\* A promotion that removes the canonical file before it renames.
RenameAfterRemove(p) ==
    /\ pc[p] = "rename"
    /\ \E ok \in BOOLEAN :
          IF ok
          THEN /\ canon' = temps[tempFile[p]]
               /\ temps' = [temps EXCEPT ![tempFile[p]] = Absent]
               /\ Return(p, NoError)
          ELSE /\ Return(p, Error("rename"))
               /\ canon' = Absent
               /\ UNCHANGED temps
    /\ open' = [open EXCEPT ![p] = @ \ {"tempFile", "tarball"}]
    /\ UNCHANGED <<dirExists, marker, locator, downloader>>

\* A promotion that copies the temporary file and leaves it there.
RenameByCopy(p) ==
    /\ pc[p] = "rename"
    /\ \E ok \in BOOLEAN :
          IF ok
          THEN /\ canon' = temps[tempFile[p]]
               /\ Return(p, NoError)
               /\ UNCHANGED temps
          ELSE /\ Return(p, Error("rename"))
               /\ UNCHANGED <<canon, temps>>
    /\ open' = [open EXCEPT ![p] = @ \ {"tempFile", "tarball"}]
    /\ UNCHANGED <<dirExists, marker, locator, downloader>>

\* A promotion that also writes the state marker.
RenameAndRecord(p) ==
    /\ pc[p] = "rename"
    /\ \E ok \in BOOLEAN :
          IF ok
          THEN /\ canon' = temps[tempFile[p]]
               /\ temps' = [temps EXCEPT ![tempFile[p]] = Absent]
               /\ marker' = File(<<49>>)
               /\ Return(p, NoError)
          ELSE /\ Return(p, Error("rename"))
               /\ UNCHANGED <<canon, temps, marker>>
    /\ open' = [open EXCEPT ![p] = @ \ {"tempFile", "tarball"}]
    /\ UNCHANGED <<dirExists, locator, downloader>>

\* Lines 144-145: the temporary file is renamed to the canonical path, in one
\* step of the filesystem.  The error of Rename is returned without being
\* assigned to the variable err, so the deferred removal does not run.
Rename(p) ==
    /\ pc[p] = "rename"
    /\ \E ok \in BOOLEAN :
          IF ok
          THEN /\ canon' = temps[tempFile[p]]
               /\ temps' = [temps EXCEPT ![tempFile[p]] = Absent]
               /\ Return(p, NoError)
          ELSE /\ Return(p, Error("rename"))
               /\ UNCHANGED <<canon, temps>>
    /\ open' = [open EXCEPT ![p] = @ \ {"tempFile", "tarball"}]
    /\ UNCHANGED <<dirExists, marker, locator, downloader>>

DownloadAgent(p) ==
    \/ MkdirAll(p)
    \/ getPublishedMd5Sum(p)
    \/ getPublishedTarball(p)
    \/ TempFile(p)
    \/ CopyChunk(p)
    \/ CopyFail(p)
    \/ CompareMd5Sum(p)
    \/ Rename(p)

(***************************************************************************)
(* The other operations.  IsAgentCached and RecordCachedAgent are called   *)
(* by the owner of the Downloader, between its calls of DownloadAgent; a   *)
(* reader may load the cached agent at any time.                           *)
(***************************************************************************)

\* Lines 71-77: Stat fails on a file that is absent, and may fail on one
\* that is there; a file is not empty when Stat succeeds with a size above 0.
\* A check that takes a file that is there for a file that is not empty.
fileExists(file, statErr) ==
    IF statErr \/ ~file.exists THEN FALSE ELSE Len(file.data) >= 0

fileNotEmpty(file, statErr) ==
    IF statErr \/ ~file.exists THEN FALSE ELSE Len(file.data) > 0

\* A check that looks at the state marker only.
IsAgentCachedByMarker ==
    /\ \A p \in Callers : pc[p] = "idle"
    /\ \E statErr \in {"none", "marker", "tarball"} :
          ret' = [NoRet EXCEPT
                     !.op = "IsAgentCached",
                     !.ok = fileNotEmpty(marker, statErr = "marker"),
                     !.statErr = statErr]
    /\ UNCHANGED <<disk, downloader, callers, pc, locals, open, remote,
                   history>>

\* Lines 67-69: the tarball is looked at only if the marker is not empty.
\* statErr names the file, if any, on which Stat fails though it is there.
IsAgentCached ==
    /\ \A p \in Callers : pc[p] = "idle"
    /\ \E statErr \in {"none", "marker", "tarball"} :
          ret' = [NoRet EXCEPT
                     !.op = "IsAgentCached",
                     !.ok = fileNotEmpty(marker, statErr = "marker")
                               /\ fileNotEmpty(canon, statErr = "tarball"),
                     !.statErr = statErr]
    /\ UNCHANGED <<disk, downloader, callers, pc, locals, open, remote,
                   history>>

\* Lines 187-190: WriteFile opens the marker truncating it, writes "1" and
\* closes it.  It fails before the file is opened (always so when the
\* directory does not exist) or after, when the file is left empty.
RecordCachedAgent ==
    /\ \A p \in Callers : pc[p] = "idle"
    /\ \E outcome \in {"written", "not opened", "not written"} :
          /\ ~dirExists => outcome = "not opened"
          /\ marker' = CASE outcome = "written" -> File(<<49>>)
                         [] outcome = "not written" -> File(<<>>)
                         [] OTHER -> marker
          /\ ret' = [NoRet EXCEPT !.op = "RecordCachedAgent",
                                  !.ok = (outcome = "written")]
          /\ recordedEarly' = (recordedEarly \/ ~canon.exists)
    /\ UNCHANGED <<dirExists, canon, locator, temps, downloader, callers, pc,
                   locals, open, remote, canonBefore, prevRemote>>

\* filepath.Base: trailing slashes are dropped, then everything up to the
\* last slash; the empty path gives "." and a path of slashes gives "/".
RECURSIVE StripSlashes(_)
StripSlashes(path) ==
    IF path # <<>> /\ path[Len(path)] = SLASH
    THEN StripSlashes(SubSeq(path, 1, Len(path) - 1))
    ELSE path

RECURSIVE LastElement(_)
LastElement(path) ==
    IF path = <<>> \/ path[Len(path)] = SLASH THEN <<>>
    ELSE Append(LastElement(SubSeq(path, 1, Len(path) - 1)), path[Len(path)])

Base(path) ==
    IF path = <<>> THEN <<DOT>>
    ELSE IF StripSlashes(path) = <<>> THEN <<SLASH>>
    ELSE LastElement(StripSlashes(path))

\* bufio.Reader.ReadString('\n') on the start of a file: the bytes up to and
\* including the first newline, or an error when there is none.
RECURSIVE ReadString(_)
ReadString(data) ==
    IF data = <<>> THEN [err |-> TRUE, line |-> <<>>]
    ELSE IF Head(data) = NL THEN [err |-> FALSE, line |-> <<NL>>]
    ELSE LET rest == ReadString(Tail(data))
         IN  [err |-> rest.err, line |-> <<Head(data)>> \o rest.line]

\* Lines 204-217, on the content of the locator file.
getDesiredImageFile(file) ==
    IF ~file.exists THEN [err |-> TRUE, path |-> <<>>]
    ELSE IF ReadString(file.data).err THEN [err |-> TRUE, path |-> <<>>]
    ELSE [err |-> FALSE,
          path |-> TrimSpace(CacheDirectory \o <<SLASH>>
                                \o Base(ReadString(file.data).line))]

\* d.fs.Open of a path: the file of the cache directory it names, if any.
Open(path) ==
    IF path = AgentTarball THEN canon
    ELSE IF path = CacheState THEN marker
    ELSE IF path = DesiredImageLocatorFile THEN locator
    ELSE IF \E n \in TempNames : path = TempPath(n)
    THEN temps[CHOOSE n \in TempNames : path = TempPath(n)]
    ELSE Absent

\* Lines 183-185.
LoadCachedAgent ==
    /\ ret' = [NoRet EXCEPT !.op = "LoadCachedAgent",
                            !.ok = Open(AgentTarball).exists,
                            !.data = Open(AgentTarball).data,
                            !.path = AgentTarball]
    /\ UNCHANGED <<disk, downloader, callers, pc, locals, open, remote,
                   history>>

\* A load that opens the canonical tarball when the locator gives no path.
LoadDesiredAgentOrCached ==
    /\ \A p \in Callers : pc[p] = "idle"
    /\ LET desired == getDesiredImageFile(locator)
           path == IF desired.err THEN AgentTarball ELSE desired.path
       IN  ret' = [NoRet EXCEPT !.op = "LoadDesiredAgent",
                                !.ok = Open(path).exists,
                                !.data = Open(path).data,
                                !.path = path]
    /\ UNCHANGED <<disk, downloader, callers, pc, locals, open, remote,
                   history>>

\* Lines 196-202.
LoadDesiredAgent ==
    /\ \A p \in Callers : pc[p] = "idle"
    /\ LET desired == getDesiredImageFile(locator)
       IN  ret' = IF desired.err
                  THEN [NoRet EXCEPT !.op = "LoadDesiredAgent"]
                  ELSE [NoRet EXCEPT !.op = "LoadDesiredAgent",
                                     !.ok = Open(desired.path).exists,
                                     !.data = Open(desired.path).data,
                                     !.path = desired.path]
    /\ UNCHANGED <<disk, downloader, callers, pc, locals, open, remote,
                   history>>

\* The process dies, at any point; the files stay as they are.  The next
\* process starts with a new Downloader.
Crash ==
    /\ NewDownloader
    /\ pc' = [p \in Callers |-> "idle"]
    /\ publishedMd5Sum' = [p \in Callers |-> <<>>]
    /\ unread' = [p \in Callers |-> <<>>]
    /\ md5hash' = [p \in Callers |-> md5New]
    /\ tempFile' = [p \in Callers |-> 0]
    /\ open' = [p \in Callers |-> {}]
    /\ ret' = NoRet
    /\ remote' = [p \in Callers |-> NoRemote]
    /\ canonBefore' = [p \in Callers |-> Absent]
    /\ prevRemote' = [p \in Callers |-> NoRemote]
    /\ UNCHANGED <<disk, callers, recordedEarly>>

Next ==
    \/ \E p \in Callers : DownloadAgent(p)
    \/ IsAgentCached
    \/ RecordCachedAgent
    \/ LoadCachedAgent
    \/ LoadDesiredAgent
    \/ Crash

\* A cache directory as LoadDesiredAgent may find it: with or without a
\* canonical tarball, and with no locator file or one of any content.
InitDesired ==
    /\ sessionErr = TRUE
    /\ dirExists = TRUE
    /\ canon \in {Absent, File(Image(1))}
    /\ marker = Absent
    /\ temps = [n \in TempNames |-> Absent]
    /\ locator \in {Absent} \cup {File(c) : c \in LocatorLines}
    /\ InitCalls
    /\ callers = {Owner}

\* Two callers about to call DownloadAgent at the same time, on a cache
\* directory that holds an older tarball or none.
InitConcurrent ==
    /\ sessionErr = TRUE
    /\ dirExists = TRUE
    /\ canon \in {Absent, File(<<1>>)}
    /\ marker = Absent
    /\ temps = [n \in TempNames |-> Absent]
    /\ locator = Absent
    /\ InitCalls
    /\ callers = Callers \ {Owner}

\* The two calls, step by step in any order, and a reader.
NextConcurrent ==
    \/ \E p \in Callers : DownloadAgent(p)
    \/ LoadCachedAgent

\* The cache on a host without a session.
Spec == Init /\ [][Next]_vars

\* The cache on a host with a session, where getRegion asks the metadata
\* capability.
SpecMetadata == InitMetadata /\ [][Next]_vars

\* Two calls of DownloadAgent at the same time.
SpecConcurrent == InitConcurrent /\ [][NextConcurrent]_vars

\* LoadDesiredAgent on every locator file.
SpecDesired == InitDesired /\ [][LoadDesiredAgent]_vars

(***************************************************************************)
(* What the claims speak of, stated apart from the code.                   *)
(***************************************************************************)
LowerHexDigits ==
    <<48, 49, 50, 51, 52, 53, 54, 55, 56, 57, 97, 98, 99, 100, 101, 102>>

\* The lowercase hex digest of a stream.
StreamDigest(stream) ==
    LET sum == md5Sum(md5Of(md5New, stream))
    IN  [i \in 1 .. 2 * Len(sum) |->
            LowerHexDigits[1 + (IF i % 2 = 1 THEN sum[(i + 1) \div 2] \div 16
                                ELSE sum[i \div 2] % 16)]]

\* s without the whitespace around it.
Trimmed(s) ==
    LET inked == {k \in 1 .. Len(s) : s[k] \notin Whitespace}
    IN  IF inked = {} THEN <<>>
        ELSE SubSeq(s, CHOOSE k \in inked : \A l \in inked : k <= l,
                       CHOOSE k \in inked : \A l \in inked : l <= k)

\* The digest of the stream equals the trimmed manifest body.
DigestMatches(rem) == StreamDigest(rem.tarball) = Trimmed(rem.manifest)

\* The step is p's call of DownloadAgent returning.
Returns(p) == DownloadAgent(p) /\ ret'.op = "DownloadAgent"

\* C1: the canonical path changes only in the step that renames a complete
\* temporary file whose digest equalled the expected checksum: in no step of
\* DownloadAgent, of a reader or of a crash does it come to hold anything
\* else than what it held when the download started or that complete new
\* content; the writes of a download in progress go to a temporary path
\* that is not the canonical path, and a reader gets what the canonical
\* path holds.
C1_CanonicalNeverPartial ==
    [][/\ \A p \in callers :
             /\ pc[p] # "idle" => canon = canonBefore[p]
             /\ tempFile[p] # 0 => TempPath(tempFile[p]) # AgentTarball
       /\ canon' # canon =>
             \E p \in callers :
                /\ pc[p] = "rename" /\ Returns(p) /\ ret'.ok
                /\ canon' = File(remote[p].tarball)
                /\ DigestMatches(remote[p])
       /\ (LoadCachedAgent /\ ret'.ok) => ret'.data = canon.data
      ]_vars

\* A reader loads an older artifact while a download has written a part of
\* a different artifact to its temporary file.
C1_Witness ==
    /\ ret.op = "LoadCachedAgent" /\ ret.ok
    /\ pc[1] = "copy" /\ unread[1] # <<>>
    /\ temps[tempFile[1]].data # <<>>
    /\ ret.data # remote[1].tarball

\* The errors with which a capability call, not the comparison of the
\* checksums, makes DownloadAgent fail.
CapabilityErrors ==
    {"mkdir", "get md5", "read md5", "get tarball", "unexpected response code",
     "temp file", "copy", "rename"}

\* C2: when the digest of the streamed bytes differs from the trimmed
\* manifest body, the comparison makes DownloadAgent return the mismatch
\* error; the temporary file is gone when its removal worked, and the
\* canonical file is what it was before the call.
C2_MismatchRejected ==
    [][\A p \in callers :
          (CompareMd5Sum(p) /\ ~DigestMatches(remote[p])) =>
             /\ ret'.op = "DownloadAgent"
             /\ ret'.err.kind = "mismatched md5sum"
             /\ ~ret'.removeErr => ~temps'[tempFile[p]].exists
             /\ canon' = canon
             /\ canon' = canonBefore[p]
      ]_vars

\* A download was rejected for its checksum; the older canonical artifact
\* is there and no temporary file is.
C2_Witness ==
    /\ ret.op = "DownloadAgent"
    /\ ret.err.kind = "mismatched md5sum"
    /\ ~ret.removeErr
    /\ canon.exists /\ canon.data # <<>>
    /\ TempFiles = {}

\* C3: when the digest of the streamed bytes equals the trimmed manifest
\* body, the comparison lets the call go on to the rename; a call returns
\* no error only from a rename that worked, and then the canonical file
\* holds exactly the streamed bytes; and with a matching digest the only
\* errors a call returns are those of a failed capability call.
C3_MatchInstalled ==
    [][\A p \in callers :
          /\ (CompareMd5Sum(p) /\ DigestMatches(remote[p])) => pc'[p] = "rename"
          /\ (Returns(p) /\ ret'.ok) =>
                /\ pc[p] = "rename"
                /\ DigestMatches(remote[p])
                /\ canon' = File(remote[p].tarball)
          /\ (Returns(p) /\ ~ret'.ok /\ DigestMatches(remote[p])) =>
                ret'.err.kind \in CapabilityErrors
      ]_vars

\* A download whose manifest has whitespace around the checksum returned no
\* error, and its two bytes replaced the canonical content.
C3_Witness ==
    /\ ret.op = "DownloadAgent" /\ ret.ok
    /\ prevRemote[1].manifest # StreamDigest(prevRemote[1].tarball)
    /\ canon = File(prevRemote[1].tarball)
    /\ Len(canon.data) = 2

\* C4: whenever DownloadAgent returns an error, the canonical file is what
\* it was before the call, absent or with the same content.
C4_ErrorLeavesCanonical ==
    [][\A p \in callers :
          (Returns(p) /\ ~ret'.ok) =>
             /\ canon' = canon
             /\ pc[p] # "idle" => canon' = canonBefore[p]
      ]_vars

\* The rename failed; the older canonical artifact is there.
C4_Witness ==
    /\ ret.op = "DownloadAgent"
    /\ ret.err.kind = "rename"
    /\ canon.exists /\ canon.data # <<>>

\* C5: whenever DownloadAgent returns after it created the temporary file,
\* with an error (of the copy, of the comparison, of the rename) or without,
\* that temporary file is not in the cache directory (its removal, where
\* the code calls it, taken to work).
C5_TempFileNeverLeftBehind ==
    [][\A p \in callers :
          (Returns(p) /\ tempFile[p] # 0 /\ ~ret'.removeErr) =>
             ~temps'[tempFile[p]].exists
      ]_vars

\* C6: a call that returns no error leaves no temporary file of its own in
\* the cache directory; and when it repeats, on the same remote content, the
\* call before it, which returned no error, the canonical content after it
\* is the canonical content after that first call.
C6_Idempotent ==
    [][\A p \in callers :
          (Returns(p) /\ ret'.ok) =>
             /\ ~temps'[tempFile[p]].exists
             /\ TempFiles' = TempFiles \ {tempFile[p]}
             /\ prevRemote[p] = remote[p] =>
                   (canon' = canonBefore[p] /\ ret'.again)
      ]_vars

\* The second of two calls on the same remote content has returned no error;
\* the canonical artifact is that content and no temporary file is there.
C6_Witness ==
    /\ ret.op = "DownloadAgent" /\ ret.ok /\ ret.again
    /\ canon = File(prevRemote[1].tarball)
    /\ canon.data # <<>>
    /\ TempFiles = {}

\* A file that is there with a size greater than zero.
NonEmpty(file) == file.exists /\ file.data # <<>>

\* C7: IsAgentCached answers true exactly when the state marker and the
\* canonical artifact are both there with a size greater than zero and no
\* Stat fails; it answers a boolean, with no error, on every combination
\* of absent, unreadable, empty and non-empty files, and it changes no file.
C7_CachedIffBothNonEmpty ==
    [][IsAgentCached =>
          /\ ret'.op = "IsAgentCached"
          /\ ret'.ok \in BOOLEAN
          /\ ret'.err = NoError
          /\ ret'.ok <=> /\ NonEmpty(marker)
                         /\ NonEmpty(canon)
                         /\ ret'.statErr = "none"
          /\ disk' = disk
      ]_vars

\* IsAgentCached answered false on a non-empty marker beside a canonical
\* artifact of no bytes.
C7_Witness ==
    /\ ret.op = "IsAgentCached" /\ ~ret.ok /\ ret.statErr = "none"
    /\ NonEmpty(marker)
    /\ canon.exists /\ canon.data = <<>>

\* C8 as claimed: in every state that DownloadAgent, RecordCachedAgent,
\* IsAgentCached and the loads reach from an empty cache directory, a state
\* marker that is not empty implies that the canonical artifact exists.
C8_MarkerImpliesCanonical == NonEmpty(marker) => canon.exists

\* C8 as amended: when RecordCachedAgent was never called while the
\* canonical artifact was missing, a state marker that is not empty implies
\* that the canonical artifact exists.
C8_MarkerAfterCanonical ==
    (~recordedEarly /\ NonEmpty(marker)) => canon.exists

\* RecordCachedAgent wrote the marker beside the canonical artifact.
C8_Witness ==
    /\ ret.op = "RecordCachedAgent" /\ ret.ok
    /\ ~recordedEarly
    /\ NonEmpty(marker)
    /\ canon.exists

\* C9: no step of DownloadAgent changes the state marker or the
\* desired-image locator; while no marker was written IsAgentCached answers
\* false, whatever DownloadAgent has installed; and a call that returns an
\* error leaves the cache as cached, or not, as it was.
C9_DownloadLeavesMarker ==
    [][/\ \A p \in callers :
             DownloadAgent(p) =>
                /\ marker' = marker
                /\ locator' = locator
                /\ ~NonEmpty(marker) => ~(NonEmpty(marker') /\ NonEmpty(canon'))
                /\ (Returns(p) /\ ~ret'.ok) =>
                      (NonEmpty(marker') /\ NonEmpty(canon'))
                         = (NonEmpty(marker) /\ NonEmpty(canon))
       /\ (IsAgentCached /\ ~marker.exists) => ~ret'.ok
      ]_vars

\* A download failed after an earlier download was recorded; the cache is
\* still one that IsAgentCached calls cached.
C9_Witness ==
    /\ ret.op = "DownloadAgent" /\ ~ret.ok
    /\ ret.err.kind = "mismatched md5sum"
    /\ marker = File(<<49>>)
    /\ NonEmpty(canon)

\* C10: on one Downloader the metadata capability is called at most once,
\* and never when the region was set at construction; once it has been
\* called, every later step on that Downloader leaves the region and the
\* number of calls as they are.
C10_RegionMemoized ==
    [][/\ metadataCalls' <= 1
       /\ sessionErr' => metadataCalls' = 0
       /\ (metadataCalls >= 1 /\ metadataCalls' # 0) =>
             (region' = region /\ metadataCalls' = metadataCalls)
      ]_vars

\* C11: a checksum response whose status is not 200 makes the fetch of the
\* checksum fail: DownloadAgent returns an error in that step, so that no
\* call with such a response gets to fetch the tarball, to create a
\* temporary file or to hold the response body as the expected checksum.
C11_ManifestStatusChecked ==
    [][\A p \in callers :
          (getPublishedMd5Sum(p) /\ remote[p].manifestStatus # StatusOK) =>
             /\ ret'.op = "DownloadAgent"
             /\ ~ret'.ok
             /\ pc'[p] = "idle"
             /\ publishedMd5Sum'[p] = <<>>
      ]_vars

\* Whether the content of a file holds a newline.
HasNewline(data) == \E k \in 1 .. Len(data) : data[k] = NL

\* The first line of a file's content, up to and including its newline.
FirstLine(data) ==
    SubSeq(data, 1, CHOOSE k \in 1 .. Len(data) :
                       data[k] = NL /\ \A l \in 1 .. k - 1 : data[l] # NL)

\* What LoadDesiredAgent resolved below the cache directory: the path it
\* opened without the cache directory and the separator in front of it.
ResolvedName ==
    SubSeq(ret.path, Len(CacheDirectory) + 2, Len(ret.path))

\* C12: for every locator file whose content holds a newline, the path that
\* LoadDesiredAgent opens is the cache directory, a separator and the base
\* name of the trimmed first line.
C12_BaseOfTrimmedLine ==
    (ret.op = "LoadDesiredAgent" /\ locator.exists /\ HasNewline(locator.data))
       => ret.path = CacheDirectory \o <<SLASH>>
                        \o Base(Trimmed(FirstLine(locator.data)))

\* C13: for every locator first line, the path that LoadDesiredAgent opens
\* is the cache directory, a separator and a name that is not empty, holds
\* no separator and is neither "." nor "..".
C13_ResolvedInsideCacheDirectory ==
    (ret.op = "LoadDesiredAgent" /\ locator.exists /\ HasNewline(locator.data))
       => /\ SubSeq(ret.path, 1, Len(CacheDirectory) + 1)
                = CacheDirectory \o <<SLASH>>
          /\ ResolvedName # <<>>
          /\ \A k \in 1 .. Len(ResolvedName) : ResolvedName[k] # SLASH
          /\ ResolvedName \notin {<<DOT>>, <<DOT, DOT>>}

\* C14: when the locator file is missing or its content holds no newline,
\* LoadDesiredAgent returns an error and opens no file, the canonical
\* tarball included.
C14_NoFallback ==
    (ret.op = "LoadDesiredAgent"
        /\ (~locator.exists \/ ~HasNewline(locator.data)))
       => /\ ~ret.ok
          /\ ret.path = <<>>
          /\ ret.data = <<>>

\* LoadDesiredAgent failed on a locator that names a file without a newline
\* after it, beside a canonical tarball.
C14_Witness ==
    /\ ret.op = "LoadDesiredAgent" /\ ~ret.ok
    /\ locator = File(<<97>>)
    /\ canon.exists

\* The order of the steps of DownloadAgent.
StepOrder ==
    { <<"idle", "md5">>, <<"md5", "tarball">>, <<"tarball", "temp">>,
      <<"temp", "copy">>, <<"copy", "rename">> }

\* C15: a call of DownloadAgent takes its steps in the order directory,
\* checksum, tarball, temporary file, copy, comparison, rename, and a step
\* that fails ends the call.  The directory exists before anything is
\* fetched; a call that fails at the directory has fetched nothing; a call
\* that returns from the directory or from a fetch has created no temporary
\* file; and the rename is made only when the whole stream is in the
\* temporary file and its digest equals the expected checksum.
C15_OrderedGates ==
    [][\A p \in callers :
          DownloadAgent(p) =>
             /\ pc'[p] # pc[p] =>
                   (pc'[p] = "idle" \/ <<pc[p], pc'[p]>> \in StepOrder)
             /\ pc'[p] # "idle" => dirExists'
             /\ (Returns(p) /\ ~ret'.ok) => pc'[p] = "idle"
             /\ (Returns(p) /\ pc[p] = "idle") =>
                   /\ ret'.err.kind = "mkdir"
                   /\ remote[p] = NoRemote
                   /\ publishedMd5Sum[p] = <<>>
                   /\ open'[p] = {}
             /\ (Returns(p) /\ pc[p] \in {"idle", "md5", "tarball"}) =>
                   /\ ~ret'.ok
                   /\ tempFile[p] = 0
                   /\ temps' = temps
             /\ Rename(p) =>
                   /\ unread[p] = <<>>
                   /\ temps[tempFile[p]] = File(remote[p].tarball)
                   /\ publishedMd5Sum[p] = StreamDigest(remote[p].tarball)
      ]_vars

\* The tarball was answered with a status other than 200: the call returned
\* and the directory, which it created, holds no temporary file.
C15_Witness ==
    /\ ret.op = "DownloadAgent"
    /\ ret.err.kind = "unexpected response code"
    /\ dirExists
    /\ locator = Absent
    /\ TempFiles = {}

\* C16: when DownloadAgent has returned, without an error or with one, the
\* response bodies it got and the temporary file are closed: a caller that
\* is not in a call holds nothing open.
C16_HandlesReleased ==
    \A p \in Callers : pc[p] = "idle" => open[p] = {}

\* C17: when the copy fails or the checksums differ and the removal of the
\* temporary file fails too, DownloadAgent returns the copy error, or the
\* mismatch error that names the URL of the tarball, and not the error of
\* the removal nor nil.
C17_CleanupNeverMasks ==
    [][\A p \in callers :
          /\ (CopyFail(p) /\ ret'.removeErr) =>
                (~ret'.ok /\ ret'.err = Error("copy"))
          /\ (CompareMd5Sum(p) /\ ret'.removeErr) =>
                /\ ~ret'.ok
                /\ ret'.err = [kind |-> "mismatched md5sum",
                               url |-> AgentRemoteTarball(region'),
                               code |-> 0]
      ]_vars

\* The checksums differed and the removal failed: the call returned the
\* mismatch error and the temporary file is still there.
C17_Witness ==
    /\ ret.op = "DownloadAgent"
    /\ ret.removeErr
    /\ ret.err.kind = "mismatched md5sum"
    /\ TempFiles # {}

\* C18: with two calls of DownloadAgent running at the same time, the
\* canonical file changes only when one of them renames its complete,
\* verified temporary file, and it then holds that call's stream, so that
\* the content after both is that of the later rename; the two calls have
\* temporary files of different names, no step of a call changes a
\* temporary file other than its own, and the temporary file of a call
\* holds the bytes that call has copied and no others.
C18_ConcurrentDownloads ==
    [][/\ \A p \in callers :
             DownloadAgent(p) =>
                /\ \A n \in TempNames :
                      (n # tempFile[p] /\ n # tempFile'[p])
                         => temps'[n] = temps[n]
                /\ (Rename(p) /\ ret'.ok) =>
                      /\ canon' = File(remote[p].tarball)
                      /\ DigestMatches(remote[p])
       /\ canon' # canon => \E p \in callers : Rename(p) /\ ret'.ok
       /\ \A p, q \in callers :
             (p # q /\ tempFile'[p] # 0) => tempFile'[p] # tempFile'[q]
       /\ \A p \in callers :
             pc'[p] \in {"copy", "rename"} =>
                temps'[tempFile'[p]].data \o unread'[p] = remote'[p].tarball
      ]_vars

\* One call has installed its stream while the other, which started before
\* that, holds another complete stream in its own temporary file.
C18_Witness ==
    /\ callers = {2, 3}
    /\ pc[2] = "rename" /\ pc[3] = "done"
    /\ prevRemote[3] # NoRemote
    /\ canon = File(prevRemote[3].tarball)
    /\ canonBefore[2] # canon
    /\ remote[2].tarball \notin {<<>>, prevRemote[3].tarball}
    /\ temps[tempFile[2]] = File(remote[2].tarball)

\* C19: when IsAgentCached is called right after a RecordCachedAgent that
\* returned no error, which followed a DownloadAgent that returned no error,
\* and no Stat fails, it answers true exactly when the downloaded stream was
\* not empty; and a rename that works on a verified stream of no bytes
\* makes the canonical file an empty file, whatever it held.
C19_EmptyArtifactNotCached ==
    [][/\ (/\ IsAgentCached
           /\ ret.op = "RecordCachedAgent" /\ ret.ok
           /\ prevRemote[Owner] # NoRemote
           /\ ret'.statErr = "none")
          => (ret'.ok <=> prevRemote[Owner].tarball # <<>>)
       /\ \A p \in callers :
             (Rename(p) /\ ret'.ok /\ remote[p].tarball = <<>>)
                => canon' = File(<<>>)
      ]_vars

\* After a download of no bytes and its recording, beside a written marker,
\* IsAgentCached answered false.
C19_Witness ==
    /\ ret.op = "IsAgentCached" /\ ~ret.ok /\ ret.statErr = "none"
    /\ marker = File(<<49>>)
    /\ prevRemote[Owner] # NoRemote
    /\ prevRemote[Owner].tarball = <<>>
    /\ canon = File(<<>>)

====
